---- MODULE Spec2Model ----
(***************************************************************************)
(* A model of legit's object store (crates/legit/src/objects.rs, and the   *)
(* older src/objects.rs), of repository discovery and initialisation       *)
(* (src/repository.rs, src/lib.rs) and of the settings (src/settings.rs).  *)
(*                                                                         *)
(* Text and file contents are byte sequences (sequences of 0..255), so     *)
(* that formatting, lossy UTF-8 decoding, header parsing and hex decoding  *)
(* are computed the way the code computes them.  SHA-1 is modelled as a    *)
(* collision-free digest: the digest of a byte sequence stands for itself. *)
(***************************************************************************)
EXTENDS Naturals, Sequences, FiniteSets, TLC

VARIABLES
    fs,        \* directory tree and metadata files: absolute path -> node
    objdirs,   \* shard directories <gitdir>/objects/<dir>: set of <<gitdir, dir>>
    objfiles,  \* object files: <<gitdir, dir, file>> -> bytes on disk
    env,       \* process environment seen by Settings (LEGIT_* overrides)
    cwd,       \* current directory of the process (absolute path)
    op,        \* the operation most recently invoked
    arg,       \* its arguments
    ret,       \* what it returned
    frame      \* the call in progress: the current activation of Repository::find

vars == <<fs, objdirs, objfiles, env, cwd, op, arg, ret, frame>>

-----------------------------------------------------------------------------
(* Bounds of the model *)

\* longest object payload that Object::new / write_object is given
MaxData == 1
\* most object files the store holds before writes of new paths stop
MaxObjects == 1

-----------------------------------------------------------------------------
(* Bytes and text *)

\* the payload alphabet: NUL, an ASCII letter, and a byte (0xFF) that can
\* never occur in well-formed UTF-8
DataBytes == {0, 97, 255}

RECURSIVE SeqsUpTo(_, _)
SeqsUpTo(S, n) ==
    IF n = 0 THEN {<<>>}
    ELSE LET shorter == SeqsUpTo(S, n - 1)
         IN  shorter \cup {Append(s, b) : s \in {t \in shorter : Len(t) = n - 1}, b \in S}

\* String::from_utf8_lossy on bytes that are ASCII or never-valid lead bytes
\* (0xF8..0xFF): every invalid byte becomes U+FFFD, encoded EF BF BD
RECURSIVE from_utf8_lossy(_)
from_utf8_lossy(bytes) ==
    IF bytes = <<>> THEN <<>>
    ELSE (IF Head(bytes) < 128 THEN <<Head(bytes)>> ELSE <<239, 191, 189>>)
         \o from_utf8_lossy(Tail(bytes))

\* Display of an unsigned integer: decimal digits, no padding
RECURSIVE Decimal(_)
Decimal(n) ==
    IF n < 10 THEN <<48 + n>> ELSE Decimal(n \div 10) \o <<48 + (n % 10)>>

IsDigit(b) == b >= 48 /\ b <= 57

RECURSIVE DigitsValue(_)
DigitsValue(s) ==
    IF s = <<>> THEN 0 ELSE DigitsValue(SubSeq(s, 1, Len(s) - 1)) * 10 + (s[Len(s)] - 48)

\* str::parse::<usize>: an optional leading '+', then one or more decimal
\* digits; the result is {} on error and {value} on success
parse_usize(s) ==
    LET digits == IF s # <<>> /\ s[1] = 43 THEN Tail(s) ELSE s
    IN  IF digits # <<>> /\ \A i \in 1..Len(digits) : IsDigit(digits[i])
        THEN {DigitsValue(digits)}
        ELSE {}

\* std::str::from_utf8 succeeds: ASCII bytes, and two-byte characters made of
\* a lead byte C2..DF and a continuation byte 80..BF
RECURSIVE is_utf8(_)
is_utf8(bytes) ==
    IF bytes = <<>> THEN TRUE
    ELSE IF Head(bytes) < 128 THEN is_utf8(Tail(bytes))
    ELSE /\ Head(bytes) >= 194 /\ Head(bytes) <= 223
         /\ Len(bytes) >= 2
         /\ bytes[2] >= 128 /\ bytes[2] <= 191
         /\ is_utf8(Tail(Tail(bytes)))

-----------------------------------------------------------------------------
(* ObjectType *)

ObjectType == {"Blob", "Tree", "Commit", "Tag"}

\* strum::Display with serialize_all = "lowercase"
TypeToken(t) ==
    CASE t = "Blob"   -> <<98, 108, 111, 98>>
      [] t = "Tree"   -> <<116, 114, 101, 101>>
      [] t = "Commit" -> <<99, 111, 109, 109, 105, 116>>
      [] t = "Tag"    -> <<116, 97, 103>>

\* strum::EnumString with serialize_all = "lowercase": exact match of the token
ObjectType_from_str(s) == {t \in ObjectType : TypeToken(t) = s}

-----------------------------------------------------------------------------
(* ObjectHash *)

\* TryFrom<&[u8]>: SHA-1 of the bytes, as a collision-free digest
Sha1(bytes) == bytes

HexDigitUpper(n) == IF n < 10 THEN 48 + n ELSE 55 + n

\* ObjectHash::to_hex: two upper-case hex digits per byte
RECURSIVE to_hex(_)
to_hex(hash) ==
    IF hash = <<>> THEN <<>>
    ELSE <<HexDigitUpper(Head(hash) \div 16), HexDigitUpper(Head(hash) % 16)>>
         \o to_hex(Tail(hash))

\* ObjectHash::as_path_parts: split the hex form after two characters
as_path_parts(hash) ==
    LET hex == to_hex(hash)
    IN  [dir |-> SubSeq(hex, 1, 2), file |-> SubSeq(hex, 3, Len(hex))]

-----------------------------------------------------------------------------
(* Object *)

\* Object::header
header(object_type, data) ==
    TypeToken(object_type) \o <<32>> \o Decimal(Len(data)) \o <<0>>

\* Object::new: the digest is taken over the formatted string, in which the
\* payload has gone through String::from_utf8_lossy
Object_new(object_type, data) ==
    [object_type |-> object_type,
     data        |-> data,
     hash        |-> Sha1(TypeToken(object_type) \o <<32>> \o Decimal(Len(data))
                          \o <<0>> \o from_utf8_lossy(data))]

-----------------------------------------------------------------------------
(* Paths and the file system *)

\* a std::path::Path: absolute or relative, and its components
AbsPath(comps) == [abs |-> TRUE, comps |-> comps]
RelPath(comps) == [abs |-> FALSE, comps |-> comps]

\* Path::join with a relative name
join(path, name) == [path EXCEPT !.comps = Append(@, name)]

\* a parent that never runs out: the root and the empty path are their own parent
parent_of_root_is_root(path) ==
    IF path.comps = <<>> THEN {path}
    ELSE {[path EXCEPT !.comps = SubSeq(@, 1, Len(@) - 1)]}

\* Path::parent: {} when the path ends in the root or is the empty string
parent(path) ==
    IF path.comps = <<>> THEN {}
    ELSE {[path EXCEPT !.comps = SubSeq(@, 1, Len(@) - 1)]}

\* where the operating system looks a path up: relative paths start at cwd
Resolve(path) == IF path.abs THEN path.comps ELSE cwd \o path.comps

Dir == [type |-> "dir"]
File(content) == [type |-> "file", content |-> content]

\* Path::exists
exists(f, path) == Resolve(path) \in DOMAIN f

Prefixes(comps) == {SubSeq(comps, 1, n) : n \in 0..Len(comps)}

\* fs::create_dir_all: the directory and every missing ancestor
create_dir_all(f, path) ==
    LET new == Prefixes(Resolve(path)) \ DOMAIN f
    IN  [q \in DOMAIN f \cup new |-> IF q \in DOMAIN f THEN f[q] ELSE Dir]

\* fs::write: create the file or replace its whole content
fs_write(f, path, content) ==
    [q \in DOMAIN f \cup {Resolve(path)} |->
        IF q = Resolve(path) THEN File(content) ELSE f[q]]

\* Object::file_path, as the key of the object file under the repository
file_path(hash, repo) ==
    LET parts == as_path_parts(hash)
    IN  <<Resolve(repo.gitdir), parts.dir, parts.file>>

-----------------------------------------------------------------------------
(* Settings *)

\* no value / a value, for optional arguments and results
None == {}
Some(v) == {v}
TheValue(opt) == CHOOSE v \in opt : TRUE

\* src/config/default: the built-in defaults
DefaultCore == [repositoryformatversion |-> 0, filemode |-> TRUE, bare |-> FALSE]

NoOverride == [repositoryformatversion |-> None, filemode |-> None, bare |-> None]

\* one configuration source laid over the values of the sources before it
Layer(core, source) ==
    [k \in DOMAIN core |-> IF source[k] = None THEN core[k] ELSE TheValue(source[k])]

\* the file formats of the config crate that the model's files use
Formats == {"ini", "toml"}

\* the file names (without extension) that the model's config files have
ConfigStems == {"config"}

\* Path::extension of a file name: {} when the name has none
extension(name) == {e \in Formats : \E stem \in ConfigStems : name = stem \o "." \o e}

\* Path::is_file
is_file(f, path) == exists(f, path) /\ f[Resolve(path)].type = "file"

\* config::File::from(path), resolved: the file itself when it is there, which
\* must then carry the extension of a format; otherwise the path with the
\* extension of a format added.  {} is the source's error (the source is
\* required).
find_file(f, path) ==
    LET name == path.comps[Len(path.comps)]
    IN  IF is_file(f, path)
        THEN (IF extension(name) # {} THEN {path} ELSE {})
        ELSE {q \in {[path EXCEPT !.comps[Len(path.comps)] = name \o "." \o e] : e \in Formats} :
                 is_file(f, q)}

\* the options a config file sets; {} when the file cannot be loaded
FileSource(f, path) ==
    {f[Resolve(q)].content : q \in find_file(f, path)}

\* Settings::new: the defaults (src/config/default, taken to be in place),
\* then the LEGIT_* environment, then the file when a path is given
Settings_new(f, use_config_path) ==
    LET base == Layer(DefaultCore, env)
    IN  IF use_config_path = None THEN [status |-> "Ok", value |-> [core |-> base]]
        ELSE LET source == FileSource(f, TheValue(use_config_path))
             IN  IF Cardinality(source) # 1 THEN [status |-> "ConfigError", value |-> <<>>]
                 ELSE [status |-> "Ok", value |-> [core |-> Layer(base, TheValue(source))]]

\* toml::to_string(settings): every option of the settings, as a config source
ConfigContent(settings) ==
    [k \in DOMAIN settings.core |-> Some(settings.core[k])]

-----------------------------------------------------------------------------
(* zlib *)

RECURSIVE Sum(_)
Sum(bytes) == IF bytes = <<>> THEN 0 ELSE Head(bytes) + Sum(Tail(bytes))

\* the stream's trailing checksum (the low half of Adler-32)
Adler(bytes) == (1 + Sum(bytes)) % 65521

\* ZlibEncoder: the two-byte zlib header (78 9C), the body, the checksum.
\* The deflate coding of the body is not modelled: the body is carried as is.
ZlibEncode(bytes) == <<120, 156>> \o bytes \o <<Adler(bytes)>>

\* ZlibDecoder::read_to_end: {} unless the stream is well formed
ZlibDecode(stream) ==
    IF /\ Len(stream) >= 3
       /\ stream[1] = 120
       /\ stream[2] = 156
       /\ stream[Len(stream)] = Adler(SubSeq(stream, 3, Len(stream) - 1))
    THEN {SubSeq(stream, 3, Len(stream) - 1)}
    ELSE {}

-----------------------------------------------------------------------------
(* Results *)

\* no call in progress
Idle == [pc |-> "idle"]

Ok(value) == [status |-> "Ok", value |-> value]
Err(kind) == [status |-> kind, value |-> <<>>]

\* the call did not return: an unwrap or expect panicked
Panic == [status |-> "panic", value |-> <<>>]

-----------------------------------------------------------------------------
(* read_object *)

\* slice::split(|b| b == 0): the pieces between the zero bytes
RECURSIVE split_zero(_, _)
split_zero(bytes, piece) ==
    IF bytes = <<>> THEN <<piece>>
    ELSE IF Head(bytes) = 0 THEN <<piece>> \o split_zero(Tail(bytes), <<>>)
    ELSE split_zero(Tail(bytes), Append(piece, Head(bytes)))

\* a split that takes a buffer without any zero byte as a bare header
split_header_lenient(buffer) ==
    LET pieces == split_zero(buffer, <<>>)
    IN  IF Len(pieces) = 2
        THEN {[header |-> from_utf8_lossy(pieces[1]), data |-> pieces[2]]}
        ELSE IF Len(pieces) = 1
        THEN {[header |-> from_utf8_lossy(pieces[1]), data |-> <<>>]}
        ELSE {}

\* Itertools::collect_tuple into a pair: {} unless there are exactly two
\* pieces; the header piece is decoded with String::from_utf8_lossy
split_header(buffer) ==
    LET pieces == split_zero(buffer, <<>>)
    IN  IF Len(pieces) = 2
        THEN {[header |-> from_utf8_lossy(pieces[1]), data |-> pieces[2]]}
        ELSE {}

\* str::split_once(' '): {} when the text has no space
split_once_space(text) ==
    LET spaces == {i \in 1..Len(text) : text[i] = 32}
    IN  IF spaces = {} THEN {}
        ELSE LET i == CHOOSE j \in spaces : \A k \in spaces : j <= k
             IN  {[left |-> SubSeq(text, 1, i - 1), right |-> SubSeq(text, i + 1, Len(text))]}

\* the part of read_object after decompression
parse_object(buffer) ==
    LET split == split_header(buffer)
    IN  IF split = {} THEN Err("MalformedHeader")
        ELSE LET hd    == TheValue(split).header
                 data  == TheValue(split).data
                 parts == split_once_space(hd)
             IN  IF parts = {} THEN Err("MalformedHeader")
                 ELSE LET object_type == ObjectType_from_str(TheValue(parts).left)
                          size        == parse_usize(TheValue(parts).right)
                      IN  IF object_type = {} THEN Err("InvalidKind")
                          ELSE IF size = {} THEN Err("InvalidSize")
                          ELSE IF Len(data) # TheValue(size) THEN Err("SizeMismatch")
                          ELSE Ok(Object_new(TheValue(object_type), data))

\* read_object(repo, hash) on the object files `files`
read_object(files, repo, hash) ==
    LET object_path == file_path(hash, repo)
    IN  IF object_path \notin DOMAIN files THEN Err("NotFound")
        ELSE LET buffer == ZlibDecode(files[object_path])
             IN  IF buffer = {} THEN Err("DecompressionError")
                 ELSE parse_object(TheValue(buffer))

-----------------------------------------------------------------------------
(* Repository::new and Repository::create of src/repository.rs *)

Repository(worktree, gitdir, settings) ==
    [worktree |-> worktree, gitdir |-> gitdir, settings |-> settings]

\* a layout that stops short of refs/heads and ends HEAD without a newline
create_layout_short(f, worktree, gitdir, settings) ==
    LET f1 == IF exists(f, worktree) THEN f ELSE create_dir_all(f, worktree)
        f2 == create_dir_all(f1, gitdir)
        f3 == create_dir_all(f2, join(gitdir, "branches"))
        f4 == create_dir_all(f3, join(gitdir, "objects"))
        f5 == create_dir_all(f4, join(join(gitdir, "refs"), "tags"))
        f7 == fs_write(f5, join(gitdir, "description"),
                  "Unnamed repository; edit this file 'description' to name the repository.")
        f8 == fs_write(f7, join(gitdir, "HEAD"), "ref: refs/heads/master")
    IN  fs_write(f8, join(gitdir, "config"), ConfigContent(settings))

\* the directories and files Repository::create puts on disk, in its order
create_layout(f, worktree, gitdir, settings) ==
    LET f1 == IF exists(f, worktree) THEN f ELSE create_dir_all(f, worktree)
        f2 == create_dir_all(f1, gitdir)
        f3 == create_dir_all(f2, join(gitdir, "branches"))
        f4 == create_dir_all(f3, join(gitdir, "objects"))
        f5 == create_dir_all(f4, join(join(gitdir, "refs"), "tags"))
        f6 == create_dir_all(f5, join(join(gitdir, "refs"), "heads"))
        f7 == fs_write(f6, join(gitdir, "description"),
                  "Unnamed repository; edit this file 'description' to name the repository.")
        f8 == fs_write(f7, join(gitdir, "HEAD"), "ref: refs/heads/master\n")
    IN  fs_write(f8, join(gitdir, "config"), ConfigContent(settings))

\* Repository::create without its existence check
create_unchecked(f, worktree, gitdir, settings) ==
    IF settings.core.repositoryformatversion # 0
    THEN [ret |-> Err("UnsupportedFormatVersion"), fs |-> f]
    ELSE [ret |-> Ok(<<>>), fs |-> create_layout(f, worktree, gitdir, settings)]

\* Repository::create: the version check, then the existence check, then the layout
create(f, worktree, gitdir, settings) ==
    IF settings.core.repositoryformatversion # 0
    THEN [ret |-> Err("UnsupportedFormatVersion"), fs |-> f]
    ELSE IF exists(f, gitdir)
    THEN [ret |-> Err("AlreadyInitialized"), fs |-> f]
    ELSE [ret |-> Ok(<<>>), fs |-> create_layout(f, worktree, gitdir, settings)]

\* Repository::new(path): resolve the settings, create the layout, return the value
Repository_new(f, path) ==
    LET worktree == path
        gitdir   == join(worktree, ".git")
        loaded   == Settings_new(f, None)
        settings == loaded.value
        made     == create(f, worktree, gitdir, settings)
    IN  IF loaded.status # "Ok" THEN [ret |-> loaded, fs |-> f]
        ELSE IF made.ret.status # "Ok" THEN made
        ELSE [ret |-> Ok(Repository(worktree, gitdir, settings)), fs |-> made.fs]

-----------------------------------------------------------------------------
(* The object store's operations *)

\* Object::new called on its own (the hash-file command without --store)
HashObject(object_type, data) ==
    /\ op' = "Object_new"
    /\ arg' = [object_type |-> object_type, data |-> data]
    /\ ret' = Ok(Object_new(object_type, data))
    /\ UNCHANGED <<fs, objdirs, objfiles, env, cwd, frame>>

\* write_object without its existence check: fs::write replaces the file
write_object_overwriting(obj, repo) ==
    LET object_path == file_path(obj.hash, repo)
    IN  /\ op' = "write_object"
        /\ arg' = [obj |-> obj, repo |-> repo]
        /\ fs' = create_dir_all(fs, join(repo.gitdir, "objects"))
        /\ objdirs' = objdirs \cup {<<object_path[1], object_path[2]>>}
        /\ objfiles' = (object_path :>
                           ZlibEncode(header(obj.object_type, obj.data) \o obj.data))
                       @@ objfiles
        /\ ret' = Ok(obj.hash)
        /\ UNCHANGED <<env, cwd, frame>>

\* write_object(obj, repo)
write_object(obj, repo) ==
    LET object_path == file_path(obj.hash, repo)
    IN  /\ op' = "write_object"
        /\ arg' = [obj |-> obj, repo |-> repo]
        /\ IF object_path \in DOMAIN objfiles
           THEN /\ ret' = Err("AlreadyExists")
                /\ UNCHANGED <<fs, objdirs, objfiles>>
           ELSE /\ fs' = create_dir_all(fs, join(repo.gitdir, "objects"))
                /\ objdirs' = objdirs \cup {<<object_path[1], object_path[2]>>}
                /\ objfiles' = (object_path :>
                                   ZlibEncode(header(obj.object_type, obj.data) \o obj.data))
                               @@ objfiles
                /\ ret' = Ok(obj.hash)
        /\ UNCHANGED <<env, cwd, frame>>

\* read_object(repo, hash)
ReadObject(repo, hash) ==
    /\ op' = "read_object"
    /\ arg' = [repo |-> repo, hash |-> hash]
    /\ ret' = read_object(objfiles, repo, hash)
    /\ UNCHANGED <<fs, objdirs, objfiles, env, cwd, frame>>

-----------------------------------------------------------------------------
(* The object store on a freshly initialised repository *)

RootOnly == (<<>> :> Dir)

TempDir == AbsPath(<<"r">>)

Payloads == SeqsUpTo(DataBytes, MaxData)

Objects == {Object_new(t, d) : t \in ObjectType, d \in Payloads}

\* the repository the store's operations are given: Repository::new(tempdir)
TestRepo == Repository(TempDir, join(TempDir, ".git"), [core |-> DefaultCore])

InitStore ==
    /\ cwd = <<>>
    /\ env = NoOverride
    /\ fs = Repository_new(RootOnly, TempDir).fs
    /\ objdirs = {}
    /\ objfiles = <<>>
    /\ op = "none"
    /\ arg = <<>>
    /\ ret = <<>>
    /\ frame = Idle

\* a write goes to an occupied path, or to a free one while the store has room
StoreHasRoom(obj, repo) ==
    \/ file_path(obj.hash, repo) \in DOMAIN objfiles
    \/ Cardinality(DOMAIN objfiles) < MaxObjects

Hash == \E t \in ObjectType, d \in Payloads : HashObject(t, d)

Write == \E obj \in Objects : StoreHasRoom(obj, TestRepo) /\ write_object(obj, TestRepo)

\* reads of the stored objects, and of the empty objects stored or not
Read ==
    \E obj \in Objects :
        /\ obj.data = <<>> \/ file_path(obj.hash, TestRepo) \in DOMAIN objfiles
        /\ ReadObject(TestRepo, obj.hash)

NextStore == Write \/ Read

Spec == InitStore /\ [][NextStore]_vars

-----------------------------------------------------------------------------
(* Properties of the object store on a freshly initialised repository *)

\* C1: a successful write_object(Object::new(k, d), repo) that is followed by
\* read_object(repo, hash) of the returned hash makes the read succeed with
\* an object of the same kind and the same data, for every kind and payload
\* (the empty payload and payloads with zero bytes included)
C1_WriteThenReadRoundTrip ==
    [][(/\ op = "write_object"
        /\ ret.status = "Ok"
        /\ op' = "read_object"
        /\ arg'.repo = arg.repo
        /\ arg'.hash = ret.value)
       => (/\ ret'.status = "Ok"
           /\ ret'.value.object_type = arg.obj.object_type
           /\ ret'.value.data = arg.obj.data)]_vars

\* C2: write_object of an object whose path is occupied fails with
\* AlreadyExists and leaves every object file as it was
C2_OccupiedPathRejected ==
    [][(/\ op' = "write_object"
        /\ file_path(arg'.obj.hash, arg'.repo) \in DOMAIN objfiles)
       => (/\ ret'.status = "AlreadyExists"
           /\ objfiles' = objfiles)]_vars

C2_Witness ==
    /\ op = "write_object"
    /\ ret.status = "AlreadyExists"
    /\ file_path(arg.obj.hash, arg.repo) \in DOMAIN objfiles

\* C3: the object built by Object::new has the digest of the header followed
\* by the raw bytes of the data
C3_HashOverRawBytes ==
    op = "Object_new" =>
        ret.value.hash = Sha1(header(arg.object_type, arg.data) \o arg.data)

-----------------------------------------------------------------------------
(* The object store with a file put at an object's path from outside, the  *)
(* way the tests of read_object do it                                      *)

\* fs::create_dir_all(object_path.parent()) and fs::write(object_path, content)
StoreRaw(hash, repo, content) ==
    LET object_path == file_path(hash, repo)
    IN  /\ op' = "store_raw"
        /\ arg' = [hash |-> hash, repo |-> repo, content |-> content]
        /\ ret' = Ok(<<>>)
        /\ fs' = create_dir_all(fs, join(repo.gitdir, "objects"))
        /\ objdirs' = objdirs \cup {<<object_path[1], object_path[2]>>}
        /\ objfiles' = (object_path :> content) @@ objfiles
        /\ UNCHANGED <<env, cwd, frame>>

\* kind tokens of stored headers: the four kinds, "Blob" and "x"
StoredKindTokens == {TypeToken(t) : t \in ObjectType} \cup {<<66, 108, 111, 98>>, <<120>>}

\* size tokens of stored headers: "0", "1", "2", "a" and "+1"
StoredSizeTokens == {<<48>>, <<49>>, <<50>>, <<97>>, <<43, 49>>}

\* header texts: a kind token alone, or a kind token, a space and a size token
StoredHeaders ==
    StoredKindTokens \cup {k \o <<32>> \o n : k \in StoredKindTokens, n \in StoredSizeTokens}

\* what follows the header text: nothing, or a zero byte and a payload
StoredTails == {<<>>} \cup {<<0>> \o d : d \in Payloads}

\* file contents: text that is no zlib stream ("no"), or a compressed buffer
StoredContents ==
    {<<110, 111>>} \cup {ZlibEncode(h \o t) : h \in StoredHeaders, t \in StoredTails}

\* the tests write at the path of a small blob
StoreTargets == {Object_new("Blob", d).hash : d \in SeqsUpTo(DataBytes, 1)}

\* a file is put at one object path of the empty store
Corrupt ==
    \E hash \in StoreTargets, content \in StoredContents :
        /\ objfiles = <<>>
        /\ StoreRaw(hash, TestRepo, content)

ReadTarget == \E hash \in StoreTargets : ReadObject(TestRepo, hash)

\* u8::to_ascii_lowercase on every byte
to_ascii_lowercase(s) == [i \in 1..Len(s) |-> IF s[i] >= 65 /\ s[i] <= 90 THEN s[i] + 32 ELSE s[i]]

\* ObjectType of src/objects.rs: strum::EnumString with ascii_case_insensitive
\* on the variants Blob, Tree, Commit and Tag
src_ObjectType_from_str(s) == {t \in ObjectType : to_ascii_lowercase(s) = TypeToken(t)}

\* GitHash::as_path_parts of src/objects.rs: the bytes of the hash, read as
\* text, split after two characters
GitHash_as_path_parts(hash) == [dir |-> SubSeq(hash, 1, 2), file |-> SubSeq(hash, 3, Len(hash))]

\* the key of the object file that read_object of src/objects.rs opens
src_object_path(hash, repo) ==
    <<Resolve(repo.gitdir), GitHash_as_path_parts(hash).dir, GitHash_as_path_parts(hash).file>>

\* read_object of src/objects.rs after decompression; its Object carries the
\* declared size
src_parse_object(buffer) ==
    LET split == split_header(buffer)
    IN  IF split = {} THEN Err("MalformedHeader")
        ELSE LET hd    == TheValue(split).header
                 data  == TheValue(split).data
                 parts == split_once_space(hd)
             IN  IF parts = {} THEN Err("MalformedHeader")
                 ELSE LET object_type == src_ObjectType_from_str(TheValue(parts).left)
                          size        == parse_usize(TheValue(parts).right)
                      IN  IF object_type = {} THEN Err("InvalidKind")
                          ELSE IF size = {} THEN Err("InvalidSize")
                          ELSE IF Len(data) # TheValue(size) THEN Err("SizeMismatch")
                          ELSE Ok([object_type |-> TheValue(object_type),
                                   size |-> TheValue(size), data |-> data])

\* read_object(repo, hash) of src/objects.rs on the object files `files`
src_read_object(files, repo, hash) ==
    LET object_path == src_object_path(hash, repo)
    IN  IF ~is_utf8(hash) THEN Panic
        ELSE IF object_path \notin DOMAIN files THEN Err("NotFound")
        ELSE LET buffer == ZlibDecode(files[object_path])
             IN  IF buffer = {} THEN Err("DecompressionError")
                 ELSE src_parse_object(TheValue(buffer))

SrcReadObject(repo, hash) ==
    /\ op' = "src_read_object"
    /\ arg' = [repo |-> repo, hash |-> hash]
    /\ ret' = src_read_object(objfiles, repo, hash)
    /\ UNCHANGED <<fs, objdirs, objfiles, env, cwd, frame>>

\* the same files read by src/objects.rs, whose GitHash is the text of the path
SrcReadTarget == \E hash \in StoreTargets : SrcReadObject(TestRepo, to_hex(hash))

NextCorrupt == Corrupt \/ ReadTarget \/ SrcReadTarget

SpecCorrupt == InitStore /\ [][NextCorrupt]_vars

\* the decompressed content of the file a read_object call was given, if any
BufferRead ==
    IF file_path(arg.hash, arg.repo) \in DOMAIN objfiles
    THEN ZlibDecode(objfiles[file_path(arg.hash, arg.repo)])
    ELSE {}

\* the positions of the zero bytes of a buffer
Zeros(buffer) == {i \in 1..Len(buffer) : buffer[i] = 0}

FirstZero(buffer) == CHOOSE i \in Zeros(buffer) : \A j \in Zeros(buffer) : i <= j

\* the kinds and payloads a buffer is the canonical serialization of
SerializationOf(buffer) ==
    {kd \in ObjectType \X {SubSeq(buffer, i, Len(buffer)) : i \in 1..(Len(buffer) + 1)} :
        buffer = header(kd[1], kd[2]) \o kd[2]}

\* C4: a read_object that succeeds returns an object whose hash is the
\* requested hash, and a file that holds the serialization of an object
\* with another hash makes read_object fail with HashMismatch
C4_ReadChecksHash ==
    op = "read_object" =>
        /\ ret.status = "Ok" => ret.value.hash = arg.hash
        /\ \A buffer \in BufferRead :
              (SerializationOf(buffer) # {} /\ Sha1(buffer) # arg.hash)
                  => ret.status = "HashMismatch"

\* C5: a stored object with a valid kind token and a decimal size token whose
\* declared size differs from the number of bytes after the first zero byte
\* makes read_object fail with SizeMismatch
C5_DeclaredSizeChecked ==
    op = "read_object" =>
        \A buffer \in BufferRead :
            (/\ Zeros(buffer) # {}
             /\ \E t \in ObjectType, n \in 0..(Len(buffer) + 1) :
                   /\ SubSeq(buffer, 1, FirstZero(buffer) - 1)
                          = TypeToken(t) \o <<32>> \o Decimal(n)
                   /\ n # Len(buffer) - FirstZero(buffer))
            => ret.status = "SizeMismatch"

\* C6: a stored object whose decompressed content has no zero byte makes
\* read_object fail with MalformedHeader
C6_MissingNullRejected ==
    op = "read_object" =>
        \A buffer \in BufferRead : Zeros(buffer) = {} => ret.status = "MalformedHeader"

C6_Witness ==
    /\ op = "read_object"
    /\ \E buffer \in BufferRead : Zeros(buffer) = {}
    /\ ret.status = "MalformedHeader"

-----------------------------------------------------------------------------
(* ObjectHash::from_hex *)

\* the length from_hex asks of its argument, in bytes of the string
HashHexLen == 40
\* the number of bytes of an ObjectHash
HashByteLen == 20

\* longest run of arbitrary characters at the front of a from_hex argument
MaxHexPrefix == 2

IsHexDigit(b) == IsDigit(b) \/ (b >= 97 /\ b <= 102) \/ (b >= 65 /\ b <= 70)

HexDigitValue(b) == IF IsDigit(b) THEN b - 48 ELSE IF b >= 97 THEN b - 87 ELSE b - 55

\* u8::from_str_radix(s, 16) on a two-byte chunk: an optional '+', then hex
\* digits, at least one; {} on error (two hex digits never overflow a u8)
u8_from_str_radix16(s) ==
    LET digits == IF s # <<>> /\ s[1] = 43 THEN Tail(s) ELSE s
    IN  IF digits # <<>> /\ \A i \in 1..Len(digits) : IsHexDigit(digits[i])
        THEN {IF Len(digits) = 1 THEN HexDigitValue(digits[1])
              ELSE HexDigitValue(digits[1]) * 16 + HexDigitValue(digits[2])}
        ELSE {}

\* ObjectHash::from_hex: the length check, then chunks(2) of the bytes, each
\* through from_utf8(..).unwrap() and from_str_radix(.., 16).unwrap()
from_hex(hex) ==
    IF Len(hex) # HashHexLen THEN Err("InvalidHash")
    ELSE LET chunks == [i \in 1..(HashHexLen \div 2) |-> SubSeq(hex, 2 * i - 1, 2 * i)]
         IN  IF \E i \in DOMAIN chunks : ~is_utf8(chunks[i]) THEN Panic
             ELSE IF \E i \in DOMAIN chunks : u8_from_str_radix16(chunks[i]) = {} THEN Panic
             ELSE LET bytes == [i \in DOMAIN chunks |-> TheValue(u8_from_str_radix16(chunks[i]))]
                  IN  IF Len(bytes) # HashByteLen THEN Err("InvalidHash") ELSE Ok(bytes)

FromHex(hex) ==
    /\ op' = "from_hex"
    /\ arg' = [hex |-> hex]
    /\ ret' = from_hex(hex)
    /\ UNCHANGED <<fs, objdirs, objfiles, env, cwd, frame>>

\* characters of the arguments: 0 f F g + - space, and the two-byte e-acute
HexChars == {<<48>>, <<102>>, <<70>>, <<103>>, <<43>>, <<45>>, <<32>>, <<195, 169>>}

RECURSIVE Strings(_)
Strings(n) ==
    IF n = 0 THEN {<<>>}
    ELSE LET shorter == Strings(n - 1)
         IN  shorter \cup {s \o c : s \in shorter, c \in HexChars}

Zeroes(n) == [i \in 1..n |-> 48]

\* a few characters, alone or followed by zeroes up to 39, 40 or 41 bytes
HexInputs ==
    {p \o Zeroes(n - Len(p)) :
        p \in Strings(MaxHexPrefix),
        n \in {HashHexLen - 1, HashHexLen, HashHexLen + 1}}
    \cup Strings(MaxHexPrefix)

Decode == \E hex \in HexInputs : FromHex(hex)

\* the operations on values, which leave the disk alone
NextHex == Decode \/ Hash

SpecHex == InitStore /\ [][NextHex]_vars

\* a string of exactly 40 hex digits
IsHex40(s) == Len(s) = 40 /\ \A i \in 1..Len(s) : IsHexDigit(s[i])

\* C7: from_hex succeeds on the strings of exactly 40 hex digits and returns
\* an InvalidHash error, without panicking, on every other string
C7_FromHexTotal ==
    op = "from_hex" =>
        ret.status = (IF IsHex40(arg.hex) THEN "Ok" ELSE "InvalidHash")

-----------------------------------------------------------------------------
(* Repository::find of src/repository.rs *)

\* one activation of Repository::find(path): either it returns, or it calls
\* itself on the parent and returns what that call returns
find(f, path) ==
    LET gitdir == join(path, ".git")
        loaded == Settings_new(f, None)
    IN  IF ~exists(f, gitdir)
        THEN IF parent(path) = {}
             THEN [recurse |-> FALSE, ret |-> Err("NoRepository")]
             ELSE [recurse |-> TRUE, path |-> TheValue(parent(path))]
        ELSE IF loaded.status # "Ok" THEN [recurse |-> FALSE, ret |-> loaded]
        ELSE [recurse |-> FALSE, ret |-> Ok(Repository(path, gitdir, loaded.value))]

\* the caller enters Repository::find(path)
FindCall(path) ==
    /\ frame = Idle
    /\ op' = "find"
    /\ arg' = [path |-> path]
    /\ ret' = <<>>
    /\ frame' = [pc |-> "find", path |-> path]
    /\ UNCHANGED <<fs, objdirs, objfiles, env, cwd>>

\* the current activation runs: it returns to the caller or recurses
FindStep ==
    /\ frame.pc = "find"
    /\ LET r == find(fs, frame.path)
       IN  IF r.recurse
           THEN /\ frame' = [frame EXCEPT !.path = r.path]
                /\ UNCHANGED ret
           ELSE /\ frame' = Idle
                /\ ret' = r.ret
    /\ UNCHANGED <<fs, objdirs, objfiles, env, cwd, op, arg>>

\* the tests' set-up of a metadata directory: fs::create_dir_all(path/.git)
MkGitDir(path) ==
    /\ frame = Idle
    /\ ~exists(fs, join(path, ".git"))
    /\ op' = "mkdir"
    /\ arg' = [path |-> path]
    /\ ret' = Ok(<<>>)
    /\ fs' = create_dir_all(fs, join(path, ".git"))
    /\ UNCHANGED <<objdirs, objfiles, env, cwd, frame>>

\* how many directories deep the working tree goes below its top directory
MaxDepth == 3

DirNames == <<"r", "a", "b", "c", "d", "e", "f", "g">>

\* the deepest directory of the tree: /r/a/b/c
Deepest == SubSeq(DirNames, 1, MaxDepth + 1)

\* the directories of the tree, the root included
TreeDirs == Prefixes(Deepest)

\* the tree with no metadata directory anywhere
BareTree == [d \in TreeDirs |-> Dir]

\* the paths of a directory: the absolute one, and those relative to cwd
PathsOf(d) ==
    {AbsPath(d)} \cup
    (IF Len(d) >= Len(cwd) /\ SubSeq(d, 1, Len(cwd)) = cwd
     THEN {RelPath(SubSeq(d, Len(cwd) + 1, Len(d)))}
     ELSE {})

InitFind ==
    /\ cwd \in TreeDirs
    /\ env = NoOverride
    /\ fs = BareTree
    /\ objdirs = {}
    /\ objfiles = <<>>
    /\ op = "none"
    /\ arg = <<>>
    /\ ret = <<>>
    /\ frame = Idle

SetUp == \E d \in TreeDirs : frame = Idle /\ MkGitDir(AbsPath(d))

Find == \E d \in TreeDirs : \E path \in PathsOf(d) : FindCall(path)

NextFind == SetUp \/ Find \/ FindStep

SpecFind == InitFind /\ [][NextFind]_vars

\* a call that was entered keeps running until it returns
FairSpecFind == SpecFind /\ WF_vars(FindStep)

\* the directories at or above `d` that hold a metadata directory
ReposAbove(d) == {a \in Prefixes(d) : Append(a, ".git") \in DOMAIN fs}

Nearest(dirs) == CHOOSE a \in dirs : \A b \in dirs : Len(b) <= Len(a)

\* C8: find started in a directory at or below a directory holding the
\* metadata directory returns a Repository whose worktree is that directory
\* (the nearest one) and whose metadata path is worktree/.git
C8_FindReturnsAncestor ==
    (op = "find" /\ frame = Idle /\ ReposAbove(Resolve(arg.path)) # {})
        => /\ ret.status = "Ok"
           /\ Resolve(ret.value.worktree) = Nearest(ReposAbove(Resolve(arg.path)))
           /\ ret.value.gitdir = join(ret.value.worktree, ".git")

\* C9: every call of find returns, and it returns NoRepository when no
\* directory from the start path up to the root holds a metadata directory
C9_FindTerminates ==
    /\ (frame.pc = "find") ~> (frame = Idle)
    /\ []((op = "find" /\ frame = Idle /\ ReposAbove(Resolve(arg.path)) = {})
            => ret.status = "NoRepository")

C9_Witness ==
    /\ op = "find"
    /\ frame = Idle
    /\ Len(arg.path.comps) >= 3
    /\ ReposAbove(Resolve(arg.path)) = {}
    /\ ret.status = "NoRepository"

-----------------------------------------------------------------------------
(* Repository::new and Repository::create of src/lib.rs *)

\* Repository::new(path, force)
lib_Repository_new(f, path, force) ==
    LET worktree      == path
        gitdir        == join(worktree, ".git")
        settings_path == IF force THEN None ELSE Some(join(gitdir, "config"))
        loaded        == Settings_new(f, settings_path)
        settings      == loaded.value
    IN  IF ~force /\ ~exists(f, gitdir) THEN Err("NoRepository")
        ELSE IF loaded.status # "Ok" THEN loaded
        ELSE IF ~force /\ settings.core.repositoryformatversion # 0
        THEN Err("UnsupportedFormatVersion")
        ELSE Ok(Repository(worktree, gitdir, settings))

\* Repository::create(path): the worktree first, then the existence check
lib_Repository_create(f, path) ==
    LET repo == lib_Repository_new(f, path, TRUE).value
        f1   == IF exists(f, repo.worktree) THEN f ELSE create_dir_all(f, repo.worktree)
    IN  IF exists(f1, repo.gitdir)
        THEN [ret |-> Err("AlreadyInitialized"), fs |-> f1]
        ELSE [ret |-> Ok(repo),
              fs  |-> create_layout(f1, repo.worktree, repo.gitdir, repo.settings)]

-----------------------------------------------------------------------------
(* Initialisation *)

\* initialize(path) as src/repository.rs has it: Repository::new(path)
Initialize(path) ==
    /\ frame = Idle
    /\ op' = "Repository_new"
    /\ arg' = [path |-> path]
    /\ ret' = Repository_new(fs, path).ret
    /\ fs' = Repository_new(fs, path).fs
    /\ UNCHANGED <<objdirs, objfiles, env, cwd, frame>>

\* initialize(path) as src/lib.rs has it: Repository::create(path)
LibCreate(path) ==
    /\ frame = Idle
    /\ op' = "Repository_create"
    /\ arg' = [path |-> path]
    /\ ret' = lib_Repository_create(fs, path).ret
    /\ fs' = lib_Repository_create(fs, path).fs
    /\ UNCHANGED <<objdirs, objfiles, env, cwd, frame>>

\* the environment sets core.repositoryformatversion to 0 or 1, or leaves it
EnvChoices ==
    {[NoOverride EXCEPT !.repositoryformatversion = v] : v \in {None, Some(0), Some(1)}}

\* the directories that are initialised: /r and /r/a
InitDirs == {<<"r">>, <<"r", "a">>}

\* the objects stored in the repositories
InitObjects == {Object_new("Blob", <<>>), Object_new("Tree", <<97>>)}

\* the Repository value for the metadata directory of `d`
RepoAt(d) == Repository(AbsPath(d), AbsPath(Append(d, ".git")), [core |-> DefaultCore])

InitInit ==
    /\ cwd \in {<<>>, <<"r">>}
    /\ env \in EnvChoices
    /\ fs = RootOnly
    /\ objdirs = {}
    /\ objfiles = <<>>
    /\ op = "none"
    /\ arg = <<>>
    /\ ret = <<>>
    /\ frame = Idle

Init1 == \E d \in InitDirs : \E path \in PathsOf(d) : Initialize(path)

Init2 == \E d \in InitDirs : \E path \in PathsOf(d) : LibCreate(path)

SetUpGitDir == \E d \in InitDirs : frame = Idle /\ MkGitDir(AbsPath(d))

WriteInto ==
    \E d \in InitDirs, obj \in InitObjects :
        /\ frame = Idle
        /\ Append(d, ".git") \in DOMAIN fs
        /\ StoreHasRoom(obj, RepoAt(d))
        /\ write_object(obj, RepoAt(d))

NextInit == Init1 \/ Init2 \/ SetUpGitDir \/ WriteInto

SpecInit == InitInit /\ [][NextInit]_vars

\* the step is an initialize(path) on a path that holds a metadata directory
InitializeOnExisting ==
    /\ op' \in {"Repository_new", "Repository_create"}
    /\ exists(fs, join(arg'.path, ".git"))

\* the step leaves everything on disk as it was
DiskUntouched == fs' = fs /\ objdirs' = objdirs /\ objfiles' = objfiles

-----------------------------------------------------------------------------
(* The layout of an initialised repository *)

is_dir(f, comps) == comps \in DOMAIN f /\ f[comps].type = "dir"

holds_file(f, comps) == comps \in DOMAIN f /\ f[comps].type = "file"

\* the layout of section 6 under `path`, with `settings` in the config file
LayoutAt(f, path, settings) ==
    LET worktree == Resolve(path)
        gitdir   == Append(worktree, ".git")
    IN  /\ is_dir(f, worktree)
        /\ is_dir(f, gitdir)
        /\ is_dir(f, gitdir \o <<"branches">>)
        /\ is_dir(f, gitdir \o <<"objects">>)
        /\ is_dir(f, gitdir \o <<"refs", "tags">>)
        /\ is_dir(f, gitdir \o <<"refs", "heads">>)
        /\ holds_file(f, gitdir \o <<"description">>)
        /\ holds_file(f, gitdir \o <<"HEAD">>)
        /\ f[gitdir \o <<"HEAD">>].content = "ref: refs/heads/master\n"
        /\ holds_file(f, gitdir \o <<"config">>)
        /\ f[gitdir \o <<"config">>].content = ConfigContent(settings)

\* C11: a successful initialize(path) on a path without a metadata directory
\* leaves the worktree directory, and under path/.git the directories
\* branches, objects, refs/tags and refs/heads, a description file, a HEAD
\* file holding exactly "ref: refs/heads/master\n", and a config file holding
\* the serialized settings of the returned repository
C11_LayoutAfterInitialize ==
    [][(/\ op' \in {"Repository_new", "Repository_create"}
        /\ ~exists(fs, join(arg'.path, ".git"))
        /\ ret'.status = "Ok")
       => LayoutAt(fs', arg'.path, ret'.value.settings)]_vars

C11_Witness ==
    /\ op \in {"Repository_new", "Repository_create"}
    /\ ret.status = "Ok"
    /\ ~arg.path.abs
    /\ LayoutAt(fs, arg.path, ret.value.settings)

-----------------------------------------------------------------------------
(* Initialisation and the format version *)

\* C13: initialize fails with UnsupportedFormatVersion whenever the resolved
\* format version is not 0, and then leaves everything on disk as it was (no
\* worktree directory, no metadata directory, no config file)
C13_InitializeChecksVersion ==
    [][(/\ op' \in {"Repository_new", "Repository_create"}
        /\ Settings_new(fs, None).value.core.repositoryformatversion # 0)
       => (ret'.status = "UnsupportedFormatVersion" /\ DiskUntouched)]_vars

-----------------------------------------------------------------------------
(* Opening a repository: settings, discovery and the format version *)

\* Settings::new(Some(path)) called on its own, as the tests of settings.rs do
ResolveSettings(path) ==
    /\ frame = Idle
    /\ op' = "Settings_new"
    /\ arg' = [use_config_path |-> path]
    /\ ret' = Settings_new(fs, Some(path))
    /\ UNCHANGED <<fs, objdirs, objfiles, env, cwd, frame>>

\* Repository::new(path, false) of src/lib.rs: the repository at `path` is opened
Open(path) ==
    /\ frame = Idle
    /\ op' = "lib_Repository_new"
    /\ arg' = [path |-> path, force |-> FALSE]
    /\ ret' = lib_Repository_new(fs, path, FALSE)
    /\ UNCHANGED <<fs, objdirs, objfiles, env, cwd, frame>>

\* the tests' set-up of a config file: File::create(config) and write!(file, ..)
WriteConfig(path, content) ==
    /\ frame = Idle
    /\ parent(path) # {}
    /\ exists(fs, TheValue(parent(path)))
    /\ ~exists(fs, path)
    /\ op' = "write_config"
    /\ arg' = [path |-> path, content |-> content]
    /\ ret' = Ok(<<>>)
    /\ fs' = fs_write(fs, path, content)
    /\ UNCHANGED <<objdirs, objfiles, env, cwd, frame>>

\* what the config files set: nothing, the format version (0 or 100), bare
ConfigSources ==
    {[NoOverride EXCEPT !.repositoryformatversion = v, !.bare = b] :
        v \in {None, Some(0), Some(100)}, b \in {None, Some(TRUE)}}

\* the working tree /r and the directory /r/a inside it
OpenTree == (<<>> :> Dir) @@ (<<"r">> :> Dir) @@ (<<"r", "a">> :> Dir)

OpenRoot == AbsPath(<<"r">>)

\* the config file of /r/.git, under its own name and with an extension
ConfigPaths ==
    {join(join(OpenRoot, ".git"), "config"), join(join(OpenRoot, ".git"), "config.ini")}

InitOpen ==
    /\ cwd = <<>>
    /\ env \in EnvChoices
    /\ fs = OpenTree
    /\ objdirs = {}
    /\ objfiles = <<>>
    /\ op = "none"
    /\ arg = <<>>
    /\ ret = <<>>
    /\ frame = Idle

OpenSetUp == MkGitDir(OpenRoot)

OpenInit1 == Initialize(OpenRoot)

OpenInit2 == LibCreate(OpenRoot)

OpenConfig == \E path \in ConfigPaths, content \in ConfigSources : WriteConfig(path, content)

OpenFind == \E path \in {OpenRoot, join(OpenRoot, "a")} : FindCall(path)

OpenOpen == \E path \in {OpenRoot, join(OpenRoot, "a")} : Open(path)

OpenSettings == \E path \in ConfigPaths : ResolveSettings(path)

NextOpen ==
    \/ OpenSetUp \/ OpenInit1 \/ OpenInit2 \/ OpenConfig
    \/ OpenFind \/ FindStep \/ OpenOpen \/ OpenSettings

SpecOpen == InitOpen /\ [][NextOpen]_vars

\* a discovery call has returned
Discovered == op \in {"find", "lib_Repository_new"} /\ frame = Idle

\* the settings the discovery call resolved on its way
DiscoverySettings ==
    IF op = "find" THEN Settings_new(fs, None)
    ELSE Settings_new(fs, Some(join(join(arg.path, ".git"), "config")))

\* the discovery call came upon a metadata directory
MetadataFound ==
    IF op = "find" THEN ReposAbove(Resolve(arg.path)) # {}
    ELSE exists(fs, join(arg.path, ".git"))

\* C12: discovery returns no Repository whose format version is not 0, and a
\* discovery that finds a metadata directory and resolves a format version
\* other than 0 fails with UnsupportedFormatVersion
C12_DiscoveryGatedOnVersion ==
    Discovered =>
        /\ ret.status = "Ok" => ret.value.settings.core.repositoryformatversion = 0
        /\ (/\ MetadataFound
            /\ DiscoverySettings.status = "Ok"
            /\ DiscoverySettings.value.core.repositoryformatversion # 0)
           => ret.status = "UnsupportedFormatVersion"

\* C14: every option of the resolved settings has the value the environment
\* sets, else the value the config file sets, else the built-in default
C14_EnvOverFileOverDefaults ==
    (op = "Settings_new" /\ ret.status = "Ok") =>
        \A source \in FileSource(fs, arg.use_config_path) :
            \A k \in DOMAIN DefaultCore :
                ret.value.core[k] =
                    IF env[k] # None THEN TheValue(env[k])
                    ELSE IF source[k] # None THEN TheValue(source[k])
                    ELSE DefaultCore[k]

\* C19: the settings of the Repository that find returns have, for every
\* option that the config file of the found metadata directory sets and the
\* environment does not, the value of the config file
C19_FindLayersConfig ==
    (op = "find" /\ frame = Idle /\ ret.status = "Ok") =>
        LET config == Resolve(join(ret.value.gitdir, "config"))
        IN  holds_file(fs, config) =>
                \A k \in DOMAIN DefaultCore :
                    (fs[config].content[k] # None /\ env[k] = None)
                        => ret.value.settings.core[k] = TheValue(fs[config].content[k])

-----------------------------------------------------------------------------
(* Initialisation, one file-system call at a time, by concurrent processes *)

\* the processes that share the disk
Procs == {1, 2}

\* the checks and file-system calls of Repository::create, in the order in
\* which src/repository.rs and src/lib.rs make them
CreateSteps(impl) ==
    IF impl = "repository"
    THEN <<"exists", "worktree", "gitdir", "branches", "objects", "tags", "heads",
           "description", "HEAD", "config">>
    ELSE <<"worktree", "exists", "gitdir", "branches", "objects", "tags", "heads",
           "description", "HEAD", "config">>

\* what one file-system call of Repository::create does to the disk
create_step(f, step, worktree, gitdir, settings) ==
    CASE step = "worktree"    -> IF exists(f, worktree) THEN f ELSE create_dir_all(f, worktree)
      [] step = "gitdir"      -> create_dir_all(f, gitdir)
      [] step = "branches"    -> create_dir_all(f, join(gitdir, "branches"))
      [] step = "objects"     -> create_dir_all(f, join(gitdir, "objects"))
      [] step = "tags"        -> create_dir_all(f, join(join(gitdir, "refs"), "tags"))
      [] step = "heads"       -> create_dir_all(f, join(join(gitdir, "refs"), "heads"))
      [] step = "description" ->
            fs_write(f, join(gitdir, "description"),
                "Unnamed repository; edit this file 'description' to name the repository.")
      [] step = "HEAD"        -> fs_write(f, join(gitdir, "HEAD"), "ref: refs/heads/master\n")
      [] step = "config"      -> fs_write(f, join(gitdir, "config"), ConfigContent(settings))

\* the process has returned `result` from its call for `repo`; `made` records
\* whether the call created the metadata directory
Done(result, repo, made) == [pc |-> "done", ret |-> result, repo |-> repo, made |-> made]

\* process p calls initialize(path): Repository::new(path) of src/repository.rs
\* or Repository::create(path) of src/lib.rs.  The settings are resolved, and
\* src/repository.rs checks the format version, before the disk is looked at.
CreateCall(p, impl, path) ==
    LET loaded == Settings_new(fs, None)
        repo   == Repository(path, join(path, ".git"), loaded.value)
    IN  /\ frame[p].pc = "idle"
        /\ frame' = [frame EXCEPT ![p] =
               IF loaded.status # "Ok" THEN Done(loaded, repo, FALSE)
               ELSE IF impl = "repository" /\ loaded.value.core.repositoryformatversion # 0
               THEN Done(Err("UnsupportedFormatVersion"), repo, FALSE)
               ELSE [pc |-> "create", impl |-> impl, at |-> 1, made |-> FALSE, repo |-> repo]]
        /\ UNCHANGED <<fs, objdirs, objfiles, env, cwd, op, arg, ret>>

\* process p makes the next check or file-system call of its Repository::create
CreateStep(p) ==
    /\ frame[p].pc = "create"
    /\ LET act  == frame[p]
           step == CreateSteps(act.impl)[act.at]
           last == act.at = Len(CreateSteps(act.impl))
       IN  IF step = "exists"
           THEN /\ frame' = [frame EXCEPT ![p] =
                       IF exists(fs, act.repo.gitdir)
                       THEN Done(Err("AlreadyInitialized"), act.repo, act.made)
                       ELSE [act EXCEPT !.at = @ + 1]]
                /\ UNCHANGED fs
           ELSE /\ fs' = create_step(fs, step, act.repo.worktree, act.repo.gitdir,
                                     act.repo.settings)
                /\ frame' = [frame EXCEPT ![p] =
                       IF last THEN Done(Ok(act.repo), act.repo, act.made)
                       ELSE [act EXCEPT !.at = @ + 1,
                                        !.made = @ \/ (step = "gitdir"
                                                         /\ ~exists(fs, act.repo.gitdir))]]
    /\ UNCHANGED <<objdirs, objfiles, env, cwd, op, arg, ret>>

\* the file-system call that process p is about to make fails (the disk is
\* full, a permission is missing): the `?` returns the error to the caller,
\* and what the call had put on disk stays
CreateFails(p) ==
    /\ frame[p].pc = "create"
    /\ LET act  == frame[p]
           step == CreateSteps(act.impl)[act.at]
       IN  /\ step # "exists"
           /\ step = "worktree" => ~exists(fs, act.repo.worktree)
           /\ frame' = [frame EXCEPT ![p] = Done(Err("IOError"), act.repo, act.made)]
    /\ UNCHANGED <<fs, objdirs, objfiles, env, cwd, op, arg, ret>>

InitRace ==
    /\ cwd = <<>>
    /\ env \in EnvChoices
    /\ fs = RootOnly
    /\ objdirs = {}
    /\ objfiles = <<>>
    /\ op = "none"
    /\ arg = <<>>
    /\ ret = <<>>
    /\ frame = [p \in Procs |-> Idle]

RaceCall ==
    \E p \in Procs, impl \in {"repository", "lib"}, d \in InitDirs :
        frame[p].pc = "idle" /\ CreateCall(p, impl, AbsPath(d))

RaceStep == \E p \in Procs : CreateStep(p)

RaceFails == \E p \in Procs : CreateFails(p)

NextRace == RaceCall \/ RaceStep \/ RaceFails

SpecRace == InitRace /\ [][NextRace]_vars

\* C15: of two initialize calls on the same path that meet no other error
\* (no failing file-system call, no unsupported format version), at most one
\* returns success, and the other one returns AlreadyInitialized
C15_OneInitializerWins ==
    \A p \in Procs : \A q \in Procs \ {p} :
        (/\ frame[p].pc = "done"
         /\ frame[q].pc = "done"
         /\ frame[p].repo.gitdir = frame[q].repo.gitdir
         /\ frame[p].ret.status = "Ok"
         /\ frame[q].ret.status \in {"Ok", "AlreadyInitialized"})
        => frame[q].ret.status = "AlreadyInitialized"

\* C20: an initialize call that returns an error after it has created the
\* metadata directory leaves no metadata directory behind
C20_InitializeAllOrNothing ==
    \A p \in Procs :
        (/\ frame[p].pc = "done"
         /\ frame[p].ret.status \notin {"Ok"}
         /\ frame[p].made
         /\ \A q \in Procs \ {p} : frame[q].pc = "idle")
        => ~exists(fs, frame[p].repo.gitdir)

-----------------------------------------------------------------------------
(* write_object, one file-system call at a time, by concurrent processes *)

\* the check and the file-system calls of write_object, in order; fs::write
\* is File::create (the file is created, or truncated when it is there)
\* followed by write_all
WriteSteps == <<"exists", "create_dir_all", "File::create", "write_all">>

\* the bytes write_object hands to fs::write
compressed_data(obj) == ZlibEncode(header(obj.object_type, obj.data) \o obj.data)

\* the process has returned `result` from write_object(obj, ..); `truncated`
\* records whether its File::create found a file in place
Written(result, obj, truncated) ==
    [pc |-> "done", ret |-> result, obj |-> obj, truncated |-> truncated]

\* process p calls write_object(obj, repo)
WriteCall(p, obj, repo) ==
    /\ frame[p].pc = "idle"
    /\ frame' = [frame EXCEPT ![p] =
           [pc |-> "write", at |-> 1, obj |-> obj, repo |-> repo, truncated |-> FALSE]]
    /\ UNCHANGED <<fs, objdirs, objfiles, env, cwd, op, arg, ret>>

\* process p makes the next check or file-system call of its write_object
WriteStep(p) ==
    /\ frame[p].pc = "write"
    /\ LET act         == frame[p]
           step        == WriteSteps[act.at]
           object_path == file_path(act.obj.hash, act.repo)
       IN  CASE step = "exists" ->
                  /\ frame' = [frame EXCEPT ![p] =
                         IF object_path \in DOMAIN objfiles
                         THEN Written(Err("AlreadyExists"), act.obj, act.truncated)
                         ELSE [act EXCEPT !.at = @ + 1]]
                  /\ UNCHANGED <<fs, objdirs, objfiles>>
             [] step = "create_dir_all" ->
                  /\ fs' = create_dir_all(fs, join(act.repo.gitdir, "objects"))
                  /\ objdirs' = objdirs \cup {<<object_path[1], object_path[2]>>}
                  /\ frame' = [frame EXCEPT ![p] = [act EXCEPT !.at = @ + 1]]
                  /\ UNCHANGED objfiles
             [] step = "File::create" ->
                  /\ objfiles' = (object_path :> <<>>) @@ objfiles
                  /\ frame' = [frame EXCEPT ![p] =
                         [act EXCEPT !.at = @ + 1,
                                     !.truncated = object_path \in DOMAIN objfiles]]
                  /\ UNCHANGED <<fs, objdirs>>
             [] step = "write_all" ->
                  /\ objfiles' = (object_path :> compressed_data(act.obj)) @@ objfiles
                  /\ frame' = [frame EXCEPT ![p] =
                         Written(Ok(act.obj.hash), act.obj, act.truncated)]
                  /\ UNCHANGED <<fs, objdirs>>
    /\ UNCHANGED <<env, cwd, op, arg, ret>>

\* the file-system call that process p is about to make fails: write_object
\* returns the error.  A write_all that fails has written some of the bytes.
WriteFails(p) ==
    /\ frame[p].pc = "write"
    /\ LET act         == frame[p]
           step        == WriteSteps[act.at]
           object_path == file_path(act.obj.hash, act.repo)
       IN  /\ step # "exists"
           /\ frame' = [frame EXCEPT ![p] = Written(Err("IOError"), act.obj, act.truncated)]
           /\ IF step = "write_all"
              THEN \E n \in 0..(Len(compressed_data(act.obj)) - 1) :
                      objfiles' = (object_path :> SubSeq(compressed_data(act.obj), 1, n))
                                  @@ objfiles
              ELSE UNCHANGED objfiles
    /\ UNCHANGED <<fs, objdirs, env, cwd, op, arg, ret>>

\* the objects the processes write: the empty blob, and the blob "a"
WriterObjects == {Object_new("Blob", <<>>), Object_new("Blob", <<97>>)}

InitWriters ==
    /\ cwd = <<>>
    /\ env = NoOverride
    /\ fs = Repository_new(RootOnly, TempDir).fs
    /\ objdirs = {}
    /\ objfiles = <<>>
    /\ op = "none"
    /\ arg = <<>>
    /\ ret = <<>>
    /\ frame = [p \in Procs |-> Idle]

WritersCall == \E p \in Procs, obj \in WriterObjects : WriteCall(p, obj, TestRepo)

WritersStep == \E p \in Procs : WriteStep(p)

WritersFail == \E p \in Procs : WriteFails(p)

\* another process reads one of the objects
WritersRead == \E obj \in WriterObjects : ReadObject(TestRepo, obj.hash)

NextWriters == WritersCall \/ WritersStep \/ WritersFail \/ WritersRead

SpecWriters == InitWriters /\ [][NextWriters]_vars

\* C16: no write_object opens (and so truncates) a file that is already in
\* place, and of two write_object calls for the same hash that meet no other
\* error exactly one returns Ok and the other returns AlreadyExists
C16_ExclusiveCreation ==
    /\ \A p \in Procs : frame[p].pc # "idle" => ~frame[p].truncated
    /\ \A p \in Procs : \A q \in Procs \ {p} :
          (/\ frame[p].pc = "done"
           /\ frame[q].pc = "done"
           /\ frame[p].obj.hash = frame[q].obj.hash
           /\ frame[p].ret.status = "Ok"
           /\ frame[q].ret.status \in {"Ok", "AlreadyExists"})
          => frame[q].ret.status = "AlreadyExists"

\* C17: in every state, a file at an object's path holds the complete
\* compressed serialization of the object, and a read_object of a path
\* that holds a file returns the object
C17_WritesAllOrNothing ==
    /\ \A obj \in WriterObjects :
          file_path(obj.hash, TestRepo) \in DOMAIN objfiles
              => objfiles[file_path(obj.hash, TestRepo)] = compressed_data(obj)
    /\ (op = "read_object" /\ file_path(arg.hash, arg.repo) \in DOMAIN objfiles)
          => ret.status = "Ok"

-----------------------------------------------------------------------------
(* The kind token of a stored header *)

\* the decompressed content of the file that the read was given, if any
BufferOfRead ==
    LET object_path == IF op = "read_object" THEN file_path(arg.hash, arg.repo)
                       ELSE src_object_path(arg.hash, arg.repo)
    IN  IF object_path \in DOMAIN objfiles THEN ZlibDecode(objfiles[object_path]) ELSE {}

\* the kind token of a buffer: the text before the first space of the header,
\* the header being what comes before the first zero byte
KindToken(buffer) ==
    IF Zeros(buffer) = {} THEN {}
    ELSE {part.left : part \in split_once_space(SubSeq(buffer, 1, FirstZero(buffer) - 1))}

\* C18: read_object of a stored object whose header has a kind token other
\* than the lower-case blob, tree, commit or tag (such as "Blob") fails with
\* InvalidKind, whatever the size token is
C18_KindTokenCaseSensitive ==
    op \in {"read_object", "src_read_object"} =>
        \A buffer \in BufferOfRead : \A token \in KindToken(buffer) :
            token \notin {TypeToken(t) : t \in ObjectType} => ret.status = "InvalidKind"

-----------------------------------------------------------------------------
(* A session on one repository: writes, reads, discovery and initialisation *)

SessionWrite ==
    \E obj \in Objects :
        /\ frame = Idle
        /\ StoreHasRoom(obj, TestRepo)
        /\ write_object(obj, TestRepo)

\* reads of the stored objects, and of the empty objects stored or not
SessionRead ==
    \E obj \in Objects :
        /\ frame = Idle
        /\ obj.data = <<>> \/ file_path(obj.hash, TestRepo) \in DOMAIN objfiles
        /\ ReadObject(TestRepo, obj.hash)

SessionFind == FindCall(TempDir)

SessionInit1 == Initialize(TempDir)

SessionInit2 == LibCreate(TempDir)

NextSession ==
    \/ SessionWrite \/ SessionRead \/ SessionFind \/ FindStep
    \/ SessionInit1 \/ SessionInit2

SpecSession == InitStore /\ [][NextSession]_vars

\* every object file stays in place with the bytes it has
FilesKept ==
    \A key \in DOMAIN objfiles : key \in DOMAIN objfiles' /\ objfiles'[key] = objfiles[key]

\* C21: a write_object that succeeds leaves the serialization of its object
\* at the object's path, no later write, read, find or initialize changes or
\* removes an object file, and every read_object of a stored hash succeeds
\* and returns the kind and the data of the object that was written there
C21_StoredObjectsImmutable ==
    /\ [][FilesKept]_vars
    /\ []((op = "write_object" /\ ret.status = "Ok")
            => objfiles[file_path(arg.obj.hash, arg.repo)] = compressed_data(arg.obj))
    /\ []((op = "read_object" /\ file_path(arg.hash, arg.repo) \in DOMAIN objfiles)
            => /\ ret.status = "Ok"
               /\ \A buffer \in BufferRead :
                     <<ret.value.object_type, ret.value.data>> \in SerializationOf(buffer))

====
